---- MODULE Spec2Model ----
(***************************************************************************)
(* Rotating-calipers minimum distance between two convex polygons:         *)
(* geo/src/algorithm/polygon_distance_fast_path.rs.                        *)
(*                                                                         *)
(* Number representation.  The float type T is modelled by exact           *)
(* arithmetic over integer coordinates:                                    *)
(*   - a point is <<x, y>> with integer x, y;                              *)
(*   - a slope is a fraction <<n, d>> with d > 0;                          *)
(*   - a point "100 units from p" (unitvector, unitpvector, punit) is kept *)
(*     as its direction from p, an integer vector v: the point itself is   *)
(*     p + 100 * v / |v|;                                                  *)
(*   - an angle is [half, sg, num, den]: with t = sg * sqrt(num / den),    *)
(*     half = 0 is asin(t) and half = 1 is PI - asin(-t), so that the      *)
(*     order of angles is the lexicographic order of (half, t);            *)
(*   - a distance is its square, a fraction [num, den]; den = 0 is         *)
(*     +infinity.                                                          *)
(* |x - y| < epsilon on angles is equality of the exact angles.            *)
(***************************************************************************)
EXTENDS Integers, Sequences, FiniteSets, TLC

\* ------------------------------------------------------------ arithmetic

Abs(x) == IF x < 0 THEN -x ELSE x

Sign(x) == IF x > 0 THEN 1 ELSE IF x < 0 THEN -1 ELSE 0

Sub(a, b) == <<a[1] - b[1], a[2] - b[2]>>

Neg(v) == <<-v[1], -v[2]>>

Cross(a, b) == a[1] * b[2] - a[2] * b[1]

Dot(a, b) == a[1] * b[1] + a[2] * b[2]

\* a fraction with a positive denominator
Norm(n, d) == IF d > 0 THEN <<n, d>> ELSE <<-n, -d>>

\* Line::new(a, b).slope(): dy / dx, only used where dx # 0
LineSlope(a, b) == Norm(b[2] - a[2], b[1] - a[1])

\* a <= b on slopes
SlopeLe(a, b) == a[1] * b[2] <= b[1] * a[2]

ZeroSlope == <<0, 1>>

\* -1 / slope, for slope # 0
PerpSlope(s) == Norm(-s[2], s[1])

\* ------------------------------------------------------------ kernel

\* the orientation of the turn from direction v to direction w
OrientDir(v, w) ==
    LET c == Cross(v, w)
    IN  IF c > 0 THEN "CounterClockwise"
        ELSE IF c < 0 THEN "Clockwise" ELSE "Collinear"

\* Ker::orient2d(a, b, c) on lattice points
orient2d(a, b, c) == OrientDir(Sub(b, a), Sub(c, a))

\* Ker::orient2d(u, p, x) where u is the point 100 units from p in direction v:
\* p - u is a positive multiple of -v, and x - u = (x - p) - (u - p)
orient2dFrom(v, p, x) == OrientDir(Neg(v), Sub(x, p))

\* ------------------------------------------------------------ distances

Infinity == [num |-> 1, den |-> 0]

\* a <= b on squared distances (den = 0: +infinity)
DistLe(a, b) == a.num * b.den <= b.num * a.den

DistEq(a, b) == DistLe(a, b) /\ DistLe(b, a)

\* Point::euclidean_distance(&Point), squared
euclidean_distance(a, b) ==
    [num |-> (a[1] - b[1]) * (a[1] - b[1]) + (a[2] - b[2]) * (a[2] - b[2]), den |-> 1]

\* Point::euclidean_distance(&Line): distance from pt to the segment s-e, squared
line_segment_distance(pt, s, e) ==
    IF s = e THEN euclidean_distance(pt, s)
    ELSE LET d  == Sub(e, s)
             d2 == Dot(d, d)
             r  == Dot(Sub(pt, s), d)
             sv == Cross(d, Sub(s, pt))
         IN  IF r <= 0 THEN euclidean_distance(pt, s)
             ELSE IF r >= d2 THEN euclidean_distance(pt, e)
             ELSE [num |-> sv * sv, den |-> d2]

\* Minimum distance between a vertex and an imaginary line drawn from p to q
vertex_line_distance(v, p, q) == line_segment_distance(v, p, q)

\* ------------------------------------------------------------ rings

\* poly.exterior().0[i], i counted from 0
At(poly, i) == poly[i + 1]

\* Wrap-around previous Polygon index
prev_vertex(poly, current_vertex) ==
    (current_vertex + (Len(poly) - 1) - 1) % (Len(poly) - 1)

next_vertex_skip_one(poly, current_vertex) ==
    (current_vertex + 2) % (Len(poly) - 1)

next_vertex_off_by_one(poly, current_vertex) ==
    (current_vertex + 1) % Len(poly)

\* Wrap-around next Polygon index
next_vertex(poly, current_vertex) ==
    (current_vertex + 1) % (Len(poly) - 1)

\* is c1 -> c2 -> c3 wound clockwise?
clockwise(c1, c2, c3) == orient2d(c1, c2, c3) = "Clockwise"

\* ------------------------------------------------------------ unit vectors

\* the sign flips unitvector applies to (cos, sin)
FlipBoth == <<-1, -1>>
FlipCos  == <<-1, 1>>
FlipSin  == <<1, -1>>
FlipNone == <<1, 1>>

\* unitvector, slope # 0: the signs of cos and sin
\* (|cos| = d / sqrt(n^2 + d^2), |sin| = |n| / sqrt(n^2 + d^2) for slope n / d)
unitvector_signs(slope, p, pprev, pnext, cw) ==
    LET pos == slope[1] > 0
        neg == slope[1] < 0
        slope_prev == LineSlope(p, pprev)
        slope_next == LineSlope(p, pnext)
    IN
    IF pnext[1] > p[1] THEN
        IF pprev[1] > p[1] THEN
            IF pprev[2] >= p[2] /\ pnext[2] >= p[2] THEN
                IF pos THEN
                    IF (cw /\ SlopeLe(slope, slope_prev)) \/ (~cw /\ SlopeLe(slope_prev, slope))
                    THEN FlipBoth
                    ELSE IF cw THEN FlipCos ELSE FlipSin
                ELSE FlipNone
            ELSE IF pprev[2] <= p[2] /\ pnext[2] <= p[2] THEN
                IF pos THEN
                    IF ~cw THEN FlipBoth ELSE FlipNone
                ELSE IF cw THEN
                    IF SlopeLe(slope, slope_prev) THEN FlipCos ELSE FlipSin
                ELSE IF SlopeLe(slope, slope_next) THEN FlipSin
                ELSE FlipCos
            ELSE IF pos THEN
                IF ~cw THEN FlipBoth ELSE FlipNone
            ELSE IF cw THEN FlipCos
            ELSE FlipSin
        ELSE IF neg THEN FlipSin
        ELSE FlipNone
    ELSE IF pnext[1] < p[1] THEN
        IF pprev[1] < p[1] THEN
            IF pprev[2] >= p[2] /\ pnext[2] >= p[2] THEN
                IF pos THEN
                    IF cw THEN FlipBoth ELSE FlipNone
                ELSE IF cw THEN
                    IF SlopeLe(slope, slope_prev) THEN FlipSin ELSE FlipCos
                ELSE IF SlopeLe(slope, slope_next) THEN FlipCos
                ELSE FlipSin
            ELSE IF pprev[2] <= p[2] /\ pnext[2] <= p[2] THEN
                IF pos THEN
                    IF SlopeLe(slope_next, slope) THEN FlipBoth ELSE FlipNone
                ELSE IF cw THEN FlipSin
                ELSE FlipCos
            ELSE IF pos THEN
                IF cw THEN FlipBoth ELSE FlipNone
            ELSE IF cw THEN FlipSin
            ELSE FlipCos
        ELSE
            \* pprev.x() >= p.x()
            IF pos THEN FlipBoth ELSE FlipCos
    ELSE IF pprev[1] > p[1] THEN
        IF pos THEN FlipBoth ELSE FlipCos
    ELSE IF neg THEN FlipSin
    ELSE FlipNone

\* unitvector(slope, poly, p, idx): the direction from p of the returned point
unitvector(slope, poly, p, idx) ==
    LET pnext == At(poly, next_vertex(poly, idx))
        pprev == At(poly, prev_vertex(poly, idx))
        cw    == clockwise(pprev, p, pnext)
    IN  IF slope[1] # 0 THEN
            \* Slope isn't 0, things are complicated
            LET f == unitvector_signs(slope, p, pprev, pnext, cw)
            IN  <<f[1] * slope[2], f[2] * Abs(slope[1])>>
        ELSE
            \* Slope is 0, things are fairly simple
            IF pnext[1] > p[1] THEN <<1, 0>>
            ELSE IF pnext[1] < p[1] THEN <<-1, 0>>
            ELSE IF pprev[1] < p[1] THEN <<1, 0>>
            ELSE <<-1, 0>>

\* Perpendicular unit vector of a vertex and a unit vector: from the direction
\* v = u - p of u, the direction from p of the returned point
unitpvector(v) ==
    IF v[1] = 0 THEN
        \* vertical
        IF v[2] > 0 THEN <<1, 0>> ELSE <<-1, 0>>
    ELSE IF v[2] = 0 THEN
        \* slope == 0
        IF v[1] > 0 THEN <<0, -1>> ELSE <<0, 1>>
    ELSE
        \* Not a special case: sperp = -1 / slope, |cos| = |v.y| / |v|, |sin| = |v.x| / |v|
        LET slope == Norm(v[2], v[1])
            f == IF v[1] > 0
                 THEN (IF slope[1] < 0 THEN FlipBoth ELSE FlipSin)
                 ELSE (IF slope[1] > 0 THEN FlipCos ELSE FlipNone)
        IN  <<f[1] * Abs(v[2]), f[2] * Abs(v[1])>>

\* ------------------------------------------------------------ angles

ZeroAngle == [half |-> 0, sg |-> 0, num |-> 0, den |-> 1]

\* PI / 2
RightAngle == [half |-> 0, sg |-> 1, num |-> 1, den |-> 1]

\* the sign of the sine, 0 for a zero sine
SineSign(a) == IF a.num = 0 THEN 0 ELSE a.sg

\* a <= b on t = sg * sqrt(num / den)
SineLe(a, b) ==
    IF SineSign(a) # SineSign(b) THEN SineSign(a) < SineSign(b)
    ELSE IF SineSign(a) = 0 THEN TRUE
    ELSE IF SineSign(a) > 0 THEN a.num * b.den <= b.num * a.den
    ELSE a.num * b.den >= b.num * a.den

\* a <= b on angles
AngleLe(a, b) == IF a.half # b.half THEN a.half < b.half ELSE SineLe(a, b)

AngleStrictlyLess(a, b) == AngleLe(a, b) /\ ~AngleLe(b, a)

\* (a - b).abs() < T::epsilon()
AngleEq(a, b) == AngleLe(a, b) /\ AngleLe(b, a)

\* -PI / 2 whatever a and b are
AngleBelowBoth(a, b) == [half |-> 0, sg |-> -1, num |-> 1, den |-> 1]

\* a.min(b)
AngleMin(a, b) == IF AngleLe(a, b) THEN a ELSE b

\* the caliper direction at p: unitvector, or straight up or down when vertical
punit_dir(poly, p, m, vertical, idx) ==
    LET pnext == At(poly, next_vertex(poly, idx))
        pprev == At(poly, prev_vertex(poly, idx))
        cw    == clockwise(pprev, p, pnext)
    IN  IF ~vertical THEN unitvector(m, poly, p, idx)
        ELSE IF cw THEN
            IF p[1] > pprev[1] THEN <<0, -1>>
            ELSE IF p[1] = pprev[1] THEN
                IF p[2] > pprev[2] THEN <<0, 1>> ELSE <<0, -1>>
            ELSE <<0, 1>>
        ELSE IF p[1] > pprev[1] THEN <<0, 1>>
        ELSE IF p[1] = pprev[1] THEN
            IF p[2] > pprev[2] THEN <<0, 1>> ELSE <<0, -1>>
        ELSE <<0, -1>>

\* the angle vertex_line_angle returns, from the caliper direction punit, the edge
\* e = pnext - p and the winding at p:
\* sine = triarea / (0.5 * 100 * edgelen) = Cross(punit, e) / (|punit| * |e|)
angle_of(punit, e, cw) ==
    LET c     == Cross(punit, e)
        num   == c * c
        den   == Dot(punit, punit) * Dot(e, e)
        perpunit == unitpvector(punit)
        left  == OrientDir(perpunit, e)
        \* sine when counter-clockwise, -sine when clockwise
        sg    == IF cw THEN -Sign(c) ELSE Sign(c)
    IN  IF left = "Collinear" \/ (sg > 0 /\ num = den) THEN RightAngle
        ELSE IF left # "Clockwise" THEN [half |-> 0, sg |-> sg, num |-> num, den |-> den]
        ELSE [half |-> 1, sg |-> -sg, num |-> num, den |-> den]

\* Angle between a vertex and an edge
\* (punit and the edge are bound as values, so that each is computed once)
vertex_line_angle(poly, p, m, vertical, idx) ==
    LET pnext == At(poly, next_vertex(poly, idx))
        pprev == At(poly, prev_vertex(poly, idx))
    IN  CHOOSE angle \in { angle_of(punit, e, clockwise(pprev, p, pnext)) :
                           punit \in {punit_dir(poly, p, m, vertical, idx)},
                           e \in {Sub(pnext, p)} } : TRUE

\* ------------------------------------------------------------ extremes

\* poly.extremes().y_min.index: the first ring index with the least y
y_min_index(poly) ==
    CHOOSE i \in 0..(Len(poly) - 1) :
        /\ \A j \in 0..(Len(poly) - 1) : At(poly, i)[2] <= At(poly, j)[2]
        /\ \A j \in 0..(i - 1) : At(poly, j)[2] # At(poly, i)[2]

\* poly.extremes().y_max.index: the first ring index with the greatest y
y_max_index(poly) ==
    CHOOSE i \in 0..(Len(poly) - 1) :
        /\ \A j \in 0..(Len(poly) - 1) : At(poly, i)[2] >= At(poly, j)[2]
        /\ \A j \in 0..(i - 1) : At(poly, j)[2] # At(poly, i)[2]

\* ------------------------------------------------------------ Polydist

max_iterations_vertices(poly1, poly2) == (Len(poly1) - 1) + (Len(poly2) - 1)

\* max_iterations: poly1.exterior().0.len() + poly2.exterior().0.len()
max_iterations_of(poly1, poly2) == Len(poly1) + Len(poly2)

\* the Polydist built by min_convex_poly_dist; Option values are "None" or the variant,
\* start is <<>> (None) or <<b>> (Some(b)); angle is the sequence of its summands
InitialState(poly1, poly2) ==
    [ poly1 |-> poly1,
      poly2 |-> poly2,
      dist |-> Infinity,
      p1_idx |-> y_min_index(poly1),
      q2_idx |-> y_max_index(poly2),
      p1 |-> At(poly1, y_min_index(poly1)),
      q2 |-> At(poly2, y_max_index(poly2)),
      p1next |-> <<0, 0>>,
      q2next |-> <<0, 0>>,
      p1prev |-> <<0, 0>>,
      q2prev |-> <<0, 0>>,
      alignment |-> "None",
      ap1 |-> ZeroAngle,
      aq2 |-> ZeroAngle,
      start |-> <<>>,
      ip1 |-> FALSE,
      iq2 |-> FALSE,
      slope |-> ZeroSlope,
      vertical |-> FALSE,
      angle |-> <<>>,
      max_iterations |-> max_iterations_of(poly1, poly2) ]

\* ------------------------------------------------------------ nextpoints

\* the alignment nextpoints starts from
alignment_reset == "VertexP"

support_line_never_vertical(p, pnext) ==
    [vertical |-> FALSE,
     slope |-> IF p[1] = pnext[1] THEN ZeroSlope ELSE LineSlope(p, pnext)]

\* the slope and verticality of the support line through the old and the new vertex
support_line(p, pnext) ==
    IF p[1] = pnext[1]
    THEN [vertical |-> TRUE, slope |-> ZeroSlope]
    ELSE [vertical |-> FALSE, slope |-> LineSlope(p, pnext)]

\* nextpoints, from the two angles ap1 and aq2 it has computed
advance(state, ap1, aq2) ==
    LET minangle == AngleMin(ap1, aq2)
        \* if (state.ap1 - minangle).abs() < T::epsilon()
        ip1 == AngleEq(ap1, minangle)
        \* if (state.aq2 - minangle).abs() < T::epsilon()
        iq2 == AngleEq(aq2, minangle)
        p1next_idx == next_vertex(state.poly1, state.p1_idx)
        q2next_idx == next_vertex(state.poly2, state.q2_idx)
        \* p1next = p1prev = p1 unless the caliper advances
        p1next == IF ip1 THEN At(state.poly1, p1next_idx) ELSE state.p1
        q2next == IF iq2 THEN At(state.poly2, q2next_idx) ELSE state.q2
        alignment_p == IF ip1 THEN "VertexP" ELSE alignment_reset
        alignment_q == IF iq2
                       THEN (IF alignment_p = "None" THEN "VertexQ" ELSE "Edge")
                       ELSE alignment_p
        line == IF ip1 THEN support_line(state.p1, p1next)
                ELSE IF iq2 THEN support_line(state.q2, q2next)
                ELSE [vertical |-> state.vertical, slope |-> state.slope]
    IN  [state EXCEPT !.alignment = alignment_q,
                      !.ip1 = ip1,
                      !.iq2 = iq2,
                      !.ap1 = ap1,
                      !.aq2 = aq2,
                      !.angle = Append(@, minangle),
                      !.p1prev = state.p1,
                      !.q2prev = state.q2,
                      !.p1next = p1next,
                      !.q2next = q2next,
                      !.p1_idx = IF ip1 THEN p1next_idx ELSE @,
                      !.q2_idx = IF iq2 THEN q2next_idx ELSE @,
                      !.vertical = line.vertical,
                      !.slope = line.slope,
                      !.start = <<FALSE>>,
                      !.p1 = p1next,
                      !.q2 = q2next]

nextpoints_alignment_untouched(state) ==
    [advance(state, ZeroAngle, ZeroAngle) EXCEPT !.alignment = state.alignment]

\* Calculate next set of caliper points
\* (the two angles are bound as values, so that each is computed once)
nextpoints(state) ==
    CHOOSE next \in
        { advance(state, ap1, aq2) :
          ap1 \in {vertex_line_angle(state.poly1, state.p1, state.slope, state.vertical, state.p1_idx)},
          aq2 \in {vertex_line_angle(state.poly2, state.q2, state.slope, state.vertical, state.q2_idx)} }
        : TRUE

\* ------------------------------------------------------------ computemin

keep_last(newdist, dist) == newdist

\* if newdist <= state.dist { state.dist = newdist }
keep_min(newdist, dist) == IF DistLe(newdist, dist) THEN newdist ELSE dist

\* line_1 != line_2 && line_1 != Collinear && line_2 != Collinear
opposite_sides(line_1, line_2) ==
    line_1 # line_2 /\ line_1 # "Collinear" /\ line_2 # "Collinear"

\* the direction of u: perpendicular to the support line, from vertex p of poly
perpendicular_dir(state, poly, p, idx) ==
    IF ~state.vertical THEN
        IF state.slope[1] # 0
        THEN unitvector(PerpSlope(state.slope), poly, p, idx)
        ELSE <<0, 1>>
    ELSE unitvector(ZeroSlope, poly, p, idx)

edge_vertex_pairs_two(state) ==
    << <<state.p1, state.q2>>, <<state.p1, state.q2prev>> >>

\* the vertex pairs the Edge arm evaluates, in order
edge_vertex_pairs(state) ==
    << <<state.p1, state.q2>>, <<state.p1, state.q2prev>>, <<state.p1prev, state.q2>> >>

\* one line of support coincides with a vertex on Q, the other with an edge on P
computemin_VertexP(state, dist) ==
    LET u == perpendicular_dir(state, state.poly2, state.q2, state.q2_idx)
        line_1 == orient2dFrom(u, state.q2, state.p1)
        line_2 == orient2dFrom(u, state.q2, state.p1prev)
    IN  IF opposite_sides(line_1, line_2)
        THEN keep_min(vertex_line_distance(state.q2, state.p1prev, state.p1), dist)
        ELSE dist

\* one line of support coincides with a vertex on P, the other with an edge on Q
computemin_VertexQ(state, dist) ==
    LET u == perpendicular_dir(state, state.poly1, state.p1, state.p1_idx)
        line_1 == orient2dFrom(u, state.p1, state.q2)
        line_2 == orient2dFrom(u, state.p1, state.q2prev)
    IN  IF opposite_sides(line_1, line_2)
        THEN keep_min(vertex_line_distance(state.p1, state.q2prev, state.q2), dist)
        ELSE dist

\* both lines of support coincide with edges (i.e. they're parallel)
computemin_Edge(state, dist) ==
    LET pairs == edge_vertex_pairs(state)
        d1 == keep_min(euclidean_distance(pairs[1][1], pairs[1][2]), dist)
        d2 == IF Len(pairs) >= 2
              THEN keep_min(euclidean_distance(pairs[2][1], pairs[2][2]), d1) ELSE d1
        d3 == IF Len(pairs) >= 3
              THEN keep_min(euclidean_distance(pairs[3][1], pairs[3][2]), d2) ELSE d2
        u1 == perpendicular_dir(state, state.poly1, state.p1prev, state.p1_idx)
        u2 == perpendicular_dir(state, state.poly1, state.p1, state.p1_idx)
        line_1a == orient2dFrom(u1, state.p1prev, state.q2prev)
        line_1b == orient2dFrom(u1, state.p1prev, state.q2)
        line_2a == orient2dFrom(u2, state.p1, state.q2prev)
        line_2b == orient2dFrom(u2, state.p1, state.q2)
    IN  IF opposite_sides(line_1a, line_1b) \/ opposite_sides(line_2a, line_2b)
        THEN keep_min(vertex_line_distance(state.p1, state.q2prev, state.q2), d3)
        ELSE d3

\* compute the minimum distance between entities (edges or vertices);
\* called with alignment # "None" (ComputeMinStep takes the unreachable!() arm itself)
computemin(state) ==
    LET d0 == keep_min(euclidean_distance(state.p1, state.q2), state.dist)
    IN  [state EXCEPT !.dist =
            CASE state.alignment = "VertexP" -> computemin_VertexP(state, d0)
              [] state.alignment = "VertexQ" -> computemin_VertexQ(state, d0)
              [] state.alignment = "Edge"    -> computemin_Edge(state, d0)]

\* ------------------------------------------------------------ inputs

\* polygons have their vertices on the lattice 0..MaxX x 0..MaxY
MaxX == 2

MaxY == 1

\* polygons have 3..MaxVertices distinct vertices
MaxVertices == 4

\* the second polygon is moved by -MaxShift..MaxShift along each axis
MaxShift == 2

LatticePoints == (0..MaxX) \X (0..MaxY)

\* v[1..n] are the vertices of a strictly convex polygon, wound in the sense of turn
\* (1: counter-clockwise, -1: clockwise): every other vertex lies strictly on the
\* inner side of every edge
StrictlyConvex(v, n, turn) ==
    \A i \in 1..n : \A k \in 1..n :
        (k # i /\ k # (i % n) + 1) => Sign(Cross(Sub(v[(i % n) + 1], v[i]), Sub(v[k], v[i]))) = turn

\* the closed ring of the vertices v[1..n]: the first vertex is repeated at the end
ClosedRing(v, n) == [i \in 1..(n + 1) |-> IF i = n + 1 THEN v[1] ELSE v[i]]

\* a < b in the order of the lattice points by x, then y
PointLess(a, b) == a[1] < b[1] \/ (a[1] = b[1] /\ a[2] < b[2])

\* the exterior rings of the convex polygons on the lattice, of either winding, each
\* written from its least vertex
ConvexRings ==
    UNION { { ClosedRing(v, n) : v \in { w \in [1..n -> LatticePoints] :
                                         /\ StrictlyConvex(w, n, 1) \/ StrictlyConvex(w, n, -1)
                                         /\ \A k \in 2..n : PointLess(w[1], w[k]) } }
            : n \in 3..MaxVertices }

Translate(poly, dx, dy) == [i \in 1..Len(poly) |-> <<poly[i][1] + dx, poly[i][2] + dy>>]

\* the line through an edge of a has b strictly on one side and a on the other
EdgeSeparates(a, b) ==
    \E i \in 1..(Len(a) - 1) : \E side \in {1, -1} :
        /\ \A k \in 1..Len(b) : Sign(Cross(Sub(a[i + 1], a[i]), Sub(b[k], a[i]))) = side
        /\ \A k \in 1..Len(a) : Sign(Cross(Sub(a[i + 1], a[i]), Sub(a[k], a[i]))) # side

\* disjoint and linearly separable
Separable(a, b) == EdgeSeparates(a, b) \/ EdgeSeparates(b, a)

\* ------------------------------------------------------------ min_convex_poly_dist

VARIABLES state, iterations, pc, result

vars == <<state, iterations, pc, result>>

loop_condition_strict(n, max_iterations) == n < max_iterations

\* while iterations <= state.max_iterations
loop_condition(n, max_iterations) == n <= max_iterations

loop_entry_computemin == "computemin"

\* the loop body starts with nextpoints
loop_entry == "nextpoints"

Init ==
    /\ \E a \in ConvexRings, b \in ConvexRings :
       \E dx \in (-MaxShift)..MaxShift, dy \in (-MaxShift)..MaxShift :
          /\ Separable(a, Translate(b, dx, dy))
          /\ state = InitialState(a, Translate(b, dx, dy))
    /\ iterations = 0
    /\ pc = loop_entry
    /\ result = Infinity

NextPointsStep ==
    /\ pc = "nextpoints"
    /\ loop_condition(iterations, state.max_iterations)
    /\ state' = nextpoints(state)
    /\ pc' = "computemin"
    /\ UNCHANGED <<iterations, result>>

ComputeMinStep ==
    /\ pc = "computemin"
    /\ IF state.alignment = "None"
       THEN \* unreachable!()
            /\ pc' = "panicked"
            /\ UNCHANGED <<state, iterations, result>>
       ELSE /\ state' = computemin(state)
            /\ iterations' = iterations + 1
            /\ pc' = "nextpoints"
            /\ UNCHANGED result

Return ==
    /\ pc = "nextpoints"
    /\ ~loop_condition(iterations, state.max_iterations)
    /\ result' = state.dist
    /\ pc' = "done"
    /\ UNCHANGED <<state, iterations>>

Next == NextPointsStep \/ ComputeMinStep \/ Return

Spec == Init /\ [][Next]_vars

\* the calls whose second polygon is moved by (MaxShift, 0)
TermInit ==
    /\ \E a \in ConvexRings, b \in ConvexRings :
          /\ Separable(a, Translate(b, MaxShift, 0))
          /\ state = InitialState(a, Translate(b, MaxShift, 0))
    /\ iterations = 0
    /\ pc = loop_entry
    /\ result = Infinity

\* the loop runs to its end: nothing suspends a step that can be taken
TermSpec == TermInit /\ [][Next]_vars /\ WF_vars(Next)

\* the loop of min_convex_poly_dist as a function: the value it returns from state with
\* n iterations done
RECURSIVE run_loop(_, _)
run_loop(s, n) ==
    IF loop_condition(n, s.max_iterations)
    THEN run_loop(computemin(nextpoints(s)), n + 1)
    ELSE s.dist

\* min_convex_poly_dist(poly1, poly2)
min_convex_poly_dist(poly1, poly2) == run_loop(InitialState(poly1, poly2), 0)

\* ------------------------------------------------------------ brute force

RECURSIVE DistMin(_)
\* the least of a finite, non-empty set of squared distances
DistMin(S) ==
    LET d == CHOOSE x \in S : TRUE
    IN  IF S = {d} THEN d
        ELSE LET m == DistMin(S \ {d}) IN IF DistLe(d, m) THEN d ELSE m

\* every vertex of one ring against every edge of the other, both ways
BruteForceDistances(a, b) ==
    { line_segment_distance(a[i], b[j], b[j + 1]) : i \in 1..(Len(a) - 1), j \in 1..(Len(b) - 1) }
    \cup
    { line_segment_distance(b[j], a[i], a[i + 1]) : i \in 1..(Len(a) - 1), j \in 1..(Len(b) - 1) }

\* the minimum distance between the boundaries of two disjoint polygons
BruteForce(a, b) == DistMin(BruteForceDistances(a, b))

\* ------------------------------------------------------------ claims

\* C1: for convex, disjoint polygons min_convex_poly_dist returns the minimum that a
\* brute-force scan of every vertex of one ring against every edge of the other returns.
C1_ReturnsBruteForceMinimum ==
    pc = "done" => DistEq(result, BruteForce(state.poly1, state.poly2))

\* C2: min_convex_poly_dist(A, B) = min_convex_poly_dist(B, A).
C2_Symmetric ==
    pc = "done" => DistEq(result, min_convex_poly_dist(state.poly2, state.poly1))

C5_DistNonIncreasing ==
    /\ state.dist = Infinity
    /\ [][DistLe(state'.dist, state.dist)]_vars

\* a candidate greater than the running minimum was evaluated and not kept
C5_Witness ==
    /\ pc = "nextpoints"
    /\ iterations > 1
    /\ ~DistLe(euclidean_distance(state.p1, state.q2), state.dist)

UnitSquare == << <<0, 0>>, <<1, 0>>, <<1, 1>>, <<0, 1>>, <<0, 0>> >>

\* C6: for the unit square and the unit square translated by (2, 0) the call returns 1.
C6_UnitSquares ==
    (pc = "done" /\ state.poly1 = UnitSquare /\ state.poly2 = Translate(UnitSquare, 2, 0))
        => DistEq(result, [num |-> 1, den |-> 1])

C6_Witness ==
    /\ pc = "done"
    /\ state.poly1 = UnitSquare
    /\ state.poly2 = Translate(UnitSquare, 2, 0)
    /\ result = [num |-> 1, den |-> 1]

\* C7: p1_idx and q2_idx are always indices of their ring below the closing vertex.
C7_IndicesValid ==
    /\ 0 <= state.p1_idx /\ state.p1_idx < Len(state.poly1) - 1
    /\ 0 <= state.q2_idx /\ state.q2_idx < Len(state.poly2) - 1

\* the polygon-1 caliper advanced from the last vertex round to vertex 0
C7_Witness ==
    /\ pc = "computemin"
    /\ state.ip1
    /\ state.p1_idx = 0
    /\ state.p1prev = At(state.poly1, Len(state.poly1) - 2)

\* C8: after nextpoints alignment is VertexP when only the polygon-1 caliper advanced,
\* VertexQ when only the polygon-2 caliper advanced, and Edge when and only when both did.
C8_AlignmentRecordsAdvance ==
    pc = "computemin" =>
        /\ (state.ip1 /\ ~state.iq2) => state.alignment = "VertexP"
        /\ (state.iq2 /\ ~state.ip1) => state.alignment = "VertexQ"
        /\ state.alignment = "Edge" <=> (state.ip1 /\ state.iq2)

\* C9 as stated: the first computemin evaluates the initial configuration, before any
\* advance of p1_idx or q2_idx.
C9_InitialConfigurationEvaluated ==
    (pc = "computemin" /\ iterations = 0) =>
        /\ state.p1_idx = y_min_index(state.poly1)
        /\ state.q2_idx = y_max_index(state.poly2)

\* C9 as amended: the first computemin runs after the first nextpoints, when at least
\* one caliper has already left its initial vertex.
C9_FirstEvaluationAfterAdvance ==
    (pc = "computemin" /\ iterations = 0) =>
        \/ state.p1_idx # y_min_index(state.poly1)
        \/ state.q2_idx # y_max_index(state.poly2)

C9_Witness ==
    /\ pc = "computemin"
    /\ iterations = 0
    /\ state.p1_idx = next_vertex(state.poly1, y_min_index(state.poly1))
    /\ state.q2_idx = y_max_index(state.poly2)

\* the state after a computemin that ran with alignment Edge
AfterEdgeStep == pc = "nextpoints" /\ iterations >= 1 /\ state.alignment = "Edge"

\* C10 as stated: after computemin with alignment Edge, dist is at most each of the four
\* vertex-pair distances (p1,q2), (p1,q2prev), (p1prev,q2), (p1prev,q2prev).
C10_FourVertexPairs ==
    AfterEdgeStep =>
        /\ DistLe(state.dist, euclidean_distance(state.p1, state.q2))
        /\ DistLe(state.dist, euclidean_distance(state.p1, state.q2prev))
        /\ DistLe(state.dist, euclidean_distance(state.p1prev, state.q2))
        /\ DistLe(state.dist, euclidean_distance(state.p1prev, state.q2prev))

\* C10 as amended: after computemin with alignment Edge, dist is at most each of the
\* three vertex-pair distances (p1,q2), (p1,q2prev), (p1prev,q2).
C10_ThreeVertexPairs ==
    AfterEdgeStep =>
        /\ DistLe(state.dist, euclidean_distance(state.p1, state.q2))
        /\ DistLe(state.dist, euclidean_distance(state.p1, state.q2prev))
        /\ DistLe(state.dist, euclidean_distance(state.p1prev, state.q2))

\* the Edge step took its minimum from the pair (p1prev, q2)
C10_Witness ==
    /\ AfterEdgeStep
    /\ state.dist = euclidean_distance(state.p1prev, state.q2)
    /\ ~DistLe(euclidean_distance(state.p1, state.q2), state.dist)
    /\ ~DistLe(euclidean_distance(state.p1, state.q2prev), state.dist)

\* the support line recorded in the state is the line through the old vertex p and the
\* new vertex pnext: vertical with slope 0 when their x are equal, of slope dy / dx otherwise
SupportLineThrough(p, pnext) ==
    /\ state.vertical <=> (p[1] = pnext[1])
    /\ state.vertical => state.slope = ZeroSlope
    /\ ~state.vertical =>
          /\ state.slope[2] > 0
          /\ state.slope[1] * (pnext[1] - p[1]) = state.slope[2] * (pnext[2] - p[2])

\* C11: after nextpoints slope and vertical are those of the edge the advancing caliper
\* traversed, from its old to its new vertex (vertical iff the x are equal, and slope 0
\* then; dy / dx otherwise); when both calipers advance the edge is polygon 1's.
C11_SlopeFromAdvancedCaliper ==
    pc = "computemin" =>
        /\ state.ip1 => SupportLineThrough(state.p1prev, state.p1)
        /\ (~state.ip1 /\ state.iq2) => SupportLineThrough(state.q2prev, state.q2)

\* both calipers advanced, along edges of different directions: a vertical edge of
\* polygon 1 and a non-vertical edge of polygon 2
C11_Witness ==
    /\ pc = "computemin"
    /\ state.ip1 /\ state.iq2
    /\ state.p1prev[1] = state.p1[1]
    /\ state.q2prev[1] # state.q2[1]
    /\ state.vertical

\* C12: computemin is never entered with alignment None, and the unreachable!() arm of
\* its match is never taken: every computemin follows a nextpoints, which leaves
\* alignment VertexP, VertexQ or Edge.
C12_ComputeMinNeverUnaligned ==
    /\ pc # "panicked"
    /\ pc = "computemin" => state.alignment \in {"VertexP", "VertexQ", "Edge"}
    /\ state.alignment = "None" => (pc = "nextpoints" /\ iterations = 0)

\* the first computemin of a call is about to run, after the nextpoints that replaced the
\* initial alignment None
C12_Witness ==
    /\ pc = "computemin"
    /\ iterations = 0
    /\ state.alignment = "VertexP"
    /\ state.ip1 /\ ~state.iq2

\* the polygon-1 caliper after a nextpoints step: advanced to the next vertex of its
\* ring, or index and point kept
P1AdvancedOrKept ==
    IF state'.ip1
    THEN /\ state'.p1_idx = next_vertex(state.poly1, state.p1_idx)
         /\ state'.p1_idx # state.p1_idx
    ELSE /\ state'.p1_idx = state.p1_idx
         /\ state'.p1 = state.p1
         /\ state'.p1 = state'.p1prev

\* the polygon-2 caliper after a nextpoints step
Q2AdvancedOrKept ==
    IF state'.iq2
    THEN /\ state'.q2_idx = next_vertex(state.poly2, state.q2_idx)
         /\ state'.q2_idx # state.q2_idx
    ELSE /\ state'.q2_idx = state.q2_idx
         /\ state'.q2 = state.q2
         /\ state'.q2 = state'.q2prev

\* C13: every nextpoints step advances at least one caliper: after it ip1 or iq2 is
\* true, an advancing caliper's index is the next vertex of its ring, and a caliper that
\* does not advance keeps its index and its point (p1 = p1prev, q2 = q2prev).
C13_SomeCaliperAdvances ==
    [][(pc = "nextpoints" /\ pc' = "computemin") =>
          /\ state'.ip1 \/ state'.iq2
          /\ P1AdvancedOrKept
          /\ Q2AdvancedOrKept]_vars

\* a step in which only the polygon-2 caliper advanced, after three steps
C13_Witness ==
    /\ pc = "computemin"
    /\ iterations = 3
    /\ ~state.ip1 /\ state.iq2
    /\ state.p1 = state.p1prev
    /\ state.q2 # state.q2prev

====
